---- MODULE Spec2Model ----
(***************************************************************************)
(* The streaming conversation controller of comhra-iced (src/src/main.rs): *)
(* the App state, App::update as one action per Message, and the Tasks     *)
(* that update returns, whose messages the iced runtime delivers one at a  *)
(* time, in order within a Task and interleaved between Tasks.             *)
(*                                                                         *)
(* Text is a sequence of one-character strings.  Option<T> is a sequence   *)
(* of length at most one: None is << >> and Some(x) is <<x>>.  A panic     *)
(* (unwrap or expect on an absent value) inside update ends the process:   *)
(* crashed becomes TRUE and nothing is enabled afterwards.                 *)
(*                                                                         *)
(* Messages that originate in the display layer (UpdatePrompt, SetModel,   *)
(* SubmitPrompt, SetConversationFile(Some(path)), NewChatButtonPressed)    *)
(* are inputs of update and are delivered in any state; messages that      *)
(* originate in a Task follow the Task's chain.  A stream Task whose       *)
(* closure panics unwinds on the executor and delivers nothing more.       *)
(*                                                                         *)
(* Not part of the state here: models_list and show_sidebar, which the     *)
(* controller only shows.                                                  *)
(*                                                                         *)
(* Two specifications.  Spec is the controller from the moment the         *)
(* start-up listing is over; it does not follow the modification times of  *)
(* the files it writes, nor the listings that exchanges start, which read  *)
(* and write none of the controller's other fields.  SpecList is the       *)
(* listing of App::new over every directory of the bounds.                 *)
(***************************************************************************)
EXTENDS Integers, Sequences, FiniteSets, TLC

VARIABLES
    prompt,                 \* App.prompt
    current_model,          \* App.current_model : Option<LocalModel>
    current_conversation,   \* App.current_conversation : Option<PathBuf>
    chats_list,             \* App.chats_list : Vec<(ChatMessage, Vec<markdown::Item>)>
    is_generating,          \* App.is_generating
    files,                  \* the conversations directory: path -> Option<file text>
    saved,                  \* history: path -> the messages SaveConversation wrote there
    ex,                     \* the Tasks returned by SubmitPrompt, in submission order
    loads,                  \* pending Task::done(LoadConversation)
    ncSave,                 \* NewChatButtonPressed Tasks about to deliver SaveConversation
    ncNew,                  \* NewChatButtonPressed Tasks about to deliver NewChat
    crashed,                \* the process panicked
    pressed,                \* history: conversations selected and New Chat presses so far
    conversations_list,     \* App.conversations_list : Vec<PathBuf>
    mtimes,                 \* the conversations directory: path -> Option<time of last write>
    listing                 \* the Task of App::new that lists the conversations

vars == <<prompt, current_model, current_conversation, chats_list, is_generating,
          files, saved, ex, loads, ncSave, ncNew, crashed, pressed,
          conversations_list, mtimes, listing>>

(* what the listing reads and writes *)
lists == <<conversations_list, mtimes, listing>>

-----------------------------------------------------------------------------
(* Bounds of the model *)

MaxExchanges == 2
MaxChunks == 2
MaxReplacements == 1
MaxSeconds == 2
MaxNanos == 1

(* split_at_checked(40), main.rs:109 *)
TitleLen == 40

-----------------------------------------------------------------------------
(* Values *)

None == << >>
Some(x) == <<x>>

(* The prompts typed; all are shorter than TitleLen *)
Prompts == { << >>, <<"a">> }

(* The fragments the backend streams for a request, in emission order; a   *)
(* stream may close after any number of them                               *)
Response == << <<"a">>, <<"\"">>, <<"a">> >>

Models == { "m1" }

(* The file name derived from the prompt: its first 40 bytes when it has   *)
(* that many, the whole prompt otherwise, then ".json".  The alphabet is   *)
(* ASCII, so every index is a character boundary.                          *)
Filename(text) ==
    (IF TitleLen <= Len(text) THEN SubSeq(text, 1, TitleLen) ELSE text) \o <<".json">>

BadPath == <<"b", ".json">>

Paths == { Filename(p) : p \in Prompts } \cup { BadPath }

(* A document that is not a JSON array of chat messages *)
BadDocument == <<"[", "{">>

-----------------------------------------------------------------------------
(* markdown::parse: the display blocks of a text; no block for no text *)

Render(text) ==
    IF text = << >> THEN << >> ELSE << [kind |-> "paragraph", text |-> text] >>

UserTurn(text) ==
    [role |-> "User", content |-> text, items |-> Render(text)]

EmptyAssistantTurn ==
    [role |-> "Assistant", content |-> << >>, items |-> << >>]

(* chats_list.iter().map(|(chat_message, _)| chat_message.clone()).collect() *)
Messages(chats) ==
    [i \in 1..Len(chats) |-> [role |-> chats[i].role, content |-> chats[i].content]]

-----------------------------------------------------------------------------
(* serde_json::to_string of Vec<ChatMessage>, as a sequence of tokens *)

RoleName(r) ==
    CASE r = "User" -> "user"
      [] r = "Assistant" -> "assistant"
      [] r = "System" -> "system"

(* a serializer that writes string contents as they are *)
EscapeNothing(s) == s

RECURSIVE Escape(_)
Escape(s) ==
    IF s = << >> THEN << >>
    ELSE (IF Head(s) \in {"\"", "\\"} THEN <<"\\", Head(s)>> ELSE <<Head(s)>>)
         \o Escape(Tail(s))

ObjectJson(m) ==
    <<"{", "role", RoleName(m.role), ",", "content", "\"">> \o Escape(m.content)
    \o <<"\"", "}">>

RECURSIVE ObjectsJson(_)
ObjectsJson(msgs) ==
    IF msgs = << >> THEN << >>
    ELSE IF Len(msgs) = 1 THEN ObjectJson(msgs[1])
    ELSE ObjectJson(msgs[1]) \o <<",">> \o ObjectsJson(Tail(msgs))

to_string(msgs) == <<"[">> \o ObjectsJson(msgs) \o <<"]">>

-----------------------------------------------------------------------------
(* serde_json::from_str::<Vec<ChatMessage>>: a parse result is             *)
(* [ok, value, next], next the index of the first token not consumed       *)

Failed == [ok |-> FALSE, value |-> << >>, next |-> 0]

RoleOfName(t) ==
    CASE t = "user" -> Some("User")
      [] t = "assistant" -> Some("Assistant")
      [] t = "system" -> Some("System")
      [] OTHER -> None

RECURSIVE ParseChars(_, _, _)
ParseChars(t, i, acc) ==
    IF i > Len(t) THEN Failed
    ELSE IF t[i] = "\"" THEN [ok |-> TRUE, value |-> acc, next |-> i + 1]
    ELSE IF t[i] = "\\"
         THEN IF i + 1 <= Len(t) /\ t[i + 1] \in {"\"", "\\"}
              THEN ParseChars(t, i + 2, Append(acc, t[i + 1]))
              ELSE Failed
    ELSE ParseChars(t, i + 1, Append(acc, t[i]))

ParseString(t, i) ==
    IF i <= Len(t) /\ t[i] = "\"" THEN ParseChars(t, i + 1, << >>) ELSE Failed

ParseObject(t, i) ==
    IF /\ i + 5 <= Len(t)
       /\ t[i] = "{" /\ t[i + 1] = "role" /\ RoleOfName(t[i + 2]) # None
       /\ t[i + 3] = "," /\ t[i + 4] = "content"
    THEN LET s == ParseString(t, i + 5)
         IN IF s.ok /\ s.next <= Len(t) /\ t[s.next] = "}"
            THEN [ok |-> TRUE,
                  value |-> [role |-> RoleOfName(t[i + 2])[1], content |-> s.value],
                  next |-> s.next + 1]
            ELSE Failed
    ELSE Failed

RECURSIVE ParseObjects(_, _, _)
ParseObjects(t, i, acc) ==
    LET o == ParseObject(t, i)
    IN IF ~o.ok \/ o.next > Len(t) THEN Failed
       ELSE IF t[o.next] = "]"
            THEN [ok |-> TRUE, value |-> Append(acc, o.value), next |-> o.next + 1]
       ELSE IF t[o.next] = ","
            THEN ParseObjects(t, o.next + 1, Append(acc, o.value))
       ELSE Failed

from_str(t) ==
    IF Len(t) < 2 \/ t[1] # "[" THEN Failed
    ELSE IF t[2] = "]"
         THEN (IF Len(t) = 2 THEN [ok |-> TRUE, value |-> << >>, next |-> 3] ELSE Failed)
    ELSE LET r == ParseObjects(t, 2, << >>)
         IN IF r.ok /\ r.next = Len(t) + 1 THEN r ELSE Failed

(* serde_json::from_str(..).unwrap_or_default() *)
ParsedOrDefault(t) == IF from_str(t).ok THEN from_str(t).value ELSE << >>

(* the Turns rebuilt from loaded messages, each with its blocks *)
WithItems(msgs) ==
    [i \in 1..Len(msgs) |->
        [role |-> msgs[i].role, content |-> msgs[i].content,
         items |-> Render(msgs[i].content)]]

-----------------------------------------------------------------------------
(* The conversations directory *)

(* fs::write(path, text) *)
Written(fs, path, text) == [fs EXCEPT ![path] = Some(text)]

(* The times of last write: whole seconds and the nanoseconds within them *)
Mtimes == { [sec |-> s, nsec |-> n] : s \in 1..MaxSeconds, n \in 0..MaxNanos }

(* MetadataExt::st_mtime, main.rs:230-231: the whole seconds of the time *)
st_mtime(t) == t.sec

(* the time of the file present at start-up in Spec *)
BadPathMtime == [sec |-> MaxSeconds, nsec |-> 0]

-----------------------------------------------------------------------------
(* The Task returned by SubmitPrompt, main.rs:144-165:                     *)
(*   toggle   Task::done(ToggleIsGenerating)                               *)
(*   stream   Task::future(send_chat_messages_stream), and on Ok           *)
(*            Task::run(stream, ..HandleStreamResponse..)                  *)
(*   save     Task::done(SaveConversation)                                 *)
(*   list     Task::done(LoadConversationList), if reload_conversation_list*)
(*   untoggle Task::done(ToggleIsGenerating)                               *)
(* idle: not submitted yet; done: finished; dead: its future panicked.     *)
(* n counts the chunks delivered.  session, turn and path are history:     *)
(* whether the session it was submitted in is the current one or which     *)
(* message replaced it, the index of its Assistant Turn, and the storage   *)
(* path of its session.                                                    *)

IdleTask ==
    [phase |-> "idle", reload |-> FALSE, request |-> << >>, n |-> 0,
     session |-> "current", turn |-> 0, path |-> None]

Over(phase) == [IdleTask EXCEPT !.phase = phase]

Submitted == { i \in 1..MaxExchanges : ex[i].phase # "idle" }

(* an exchange: a submitted prompt whose stream has not yet ended *)
Streaming(i) == ex[i].phase \in {"toggle", "stream"}

(* the chunks exchange i delivered so far, concatenated *)
RECURSIVE Concat(_)
Concat(chunks) == IF chunks = << >> THEN << >> ELSE Head(chunks) \o Concat(Tail(chunks))

Sent(i) == Concat(SubSeq(Response, 1, ex[i].n))

(* the session was replaced: the exchanges in flight are of an earlier one *)
Orphaned(tasks, by) ==
    [i \in 1..MaxExchanges |->
        IF tasks[i].phase \in {"idle", "done", "dead"} \/ tasks[i].session # "current"
        THEN tasks[i]
        ELSE [tasks[i] EXCEPT !.session = by]]

-----------------------------------------------------------------------------
Init ==
    /\ prompt = << >>
    /\ current_model = None
    /\ current_conversation = None
    /\ chats_list = << >>
    /\ is_generating = FALSE
    /\ files = [p \in Paths |-> IF p = BadPath THEN Some(BadDocument) ELSE None]
    /\ saved = [p \in Paths |-> None]
    /\ ex = [i \in 1..MaxExchanges |-> IdleTask]
    /\ loads = 0
    /\ ncSave = 0
    /\ ncNew = 0
    /\ crashed = FALSE
    /\ pressed = 0
    /\ mtimes = [p \in Paths |-> IF p = BadPath THEN Some(BadPathMtime) ELSE None]
    /\ conversations_list = <<BadPath>>
    /\ listing = "done"

-----------------------------------------------------------------------------
(* App::update, one action per Message *)

(* Message::UpdatePrompt(s), main.rs:101 *)
UpdatePrompt(s) ==
    /\ ~crashed
    /\ prompt # s
    /\ prompt' = s
    /\ UNCHANGED <<lists, current_model, current_conversation, chats_list, is_generating,
                   files, saved, ex, loads, ncSave, ncNew, crashed, pressed>>

(* Message::SetModel(model), main.rs:95 *)
SetModel(model) ==
    /\ ~crashed
    /\ current_model # model
    /\ current_model' = model
    /\ UNCHANGED <<lists, prompt, current_conversation, chats_list, is_generating,
                   files, saved, ex, loads, ncSave, ncNew, crashed, pressed>>

(* a submission that derives the path from every prompt *)
SubmittedConversationAlways(conversation, text) == Some(Filename(text))

(* main.rs:103-117: the storage path after a submission *)
SubmittedConversation(conversation, text) ==
    IF conversation = None THEN Some(Filename(text)) ELSE conversation

(* a submission that appends the User Turn only *)
SubmittedUserTurnOnly(chats, text) == Append(chats, UserTurn(text))

(* main.rs:118-134: the Turns after a submission *)
SubmittedChats(chats, text) ==
    Append(Append(chats, UserTurn(text)), EmptyAssistantTurn)

(* main.rs:135-141: the chat request *)
ChatRequest(model, chats) == [model |-> model, messages |-> Messages(chats)]

(* Message::SubmitPrompt, main.rs:102-166.  With no model selected the     *)
(* unwrap of main.rs:141 panics after the path and the Turns were changed. *)
SubmitPrompt ==
    /\ ~crashed
    /\ Cardinality(Submitted) < MaxExchanges
    /\ LET i == Cardinality(Submitted) + 1
           chats == SubmittedChats(chats_list, prompt)
           conversation == SubmittedConversation(current_conversation, prompt)
       IN /\ current_conversation' = conversation
          /\ chats_list' = chats
          /\ IF current_model = None
             THEN /\ crashed' = TRUE
                  /\ UNCHANGED <<prompt, ex>>
             ELSE /\ prompt' = << >>
                  /\ ex' = [ex EXCEPT ![i] =
                              [phase |-> "toggle",
                               reload |-> (current_conversation = None),
                               request |-> ChatRequest(current_model[1], chats),
                               n |-> 0,
                               session |-> "current",
                               turn |-> Len(chats),
                               path |-> conversation]]
                  /\ UNCHANGED crashed
    /\ UNCHANGED <<lists, current_model, is_generating, files, saved, loads, ncSave, ncNew, pressed>>

(* Message::ToggleIsGenerating, main.rs:240, delivered first and last by   *)
(* the Task of exchange i                                                  *)
ToggleIsGenerating(i) ==
    /\ ~crashed
    /\ ex[i].phase \in {"toggle", "untoggle"}
    /\ is_generating' = ~is_generating
    /\ ex' = [ex EXCEPT ![i] =
                IF ex[i].phase = "toggle" THEN [@ EXCEPT !.phase = "stream"]
                ELSE Over("done")]
    /\ UNCHANGED <<lists, prompt, current_model, current_conversation, chats_list,
                   files, saved, loads, ncSave, ncNew, crashed, pressed>>

(* main.rs:146-149: send_chat_messages_stream resolves to Err and and_then *)
(* yields nothing: the chain goes on to its last message                   *)
BackendUnavailable(i) ==
    /\ ~crashed
    /\ ex[i].phase = "stream"
    /\ ex[i].n = 0
    /\ ex' = [ex EXCEPT ![i].phase = "untoggle"]
    /\ UNCHANGED <<lists, prompt, current_model, current_conversation, chats_list, is_generating,
                   files, saved, loads, ncSave, ncNew, crashed, pressed>>

(* a chunk pushed onto the last Turn whose blocks are not recomputed *)
ExtendedKeepingItems(chats, chunk) ==
    LET k == Len(chats)
    IN [chats EXCEPT ![k].content = @ \o chunk]

(* a chunk put in front of the content of the last Turn *)
ExtendedInFront(chats, chunk) ==
    LET k == Len(chats)
        content == chunk \o chats[k].content
    IN [chats EXCEPT ![k] = [role |-> chats[k].role, content |-> content,
                             items |-> Render(content)]]

(* main.rs:200-205: the Turns after a chunk was pushed onto the last one *)
Extended(chats, chunk) ==
    LET k == Len(chats)
        content == chats[k].content \o chunk
    IN [chats EXCEPT ![k] = [role |-> chats[k].role, content |-> content,
                             items |-> Render(content)]]

(* Message::HandleStreamResponse(next_chunk), main.rs:199-206, delivered   *)
(* by the stream of exchange i; last_mut().unwrap() panics on no Turns     *)
HandleStreamResponse(i) ==
    /\ ~crashed
    /\ ex[i].phase = "stream"
    /\ ex[i].n < MaxChunks
    /\ ex' = [ex EXCEPT ![i].n = @ + 1]
    /\ IF chats_list = << >>
       THEN crashed' = TRUE /\ UNCHANGED chats_list
       ELSE chats_list' = Extended(chats_list, Response[ex[i].n + 1]) /\ UNCHANGED crashed
    /\ UNCHANGED <<lists, prompt, current_model, current_conversation, is_generating,
                   files, saved, loads, ncSave, ncNew, pressed>>

(* the stream of exchange i closes: Task::run is over, the chain goes on *)
StreamEnd(i) ==
    /\ ~crashed
    /\ ex[i].phase = "stream"
    /\ ex' = [ex EXCEPT ![i].phase = "save"]
    /\ UNCHANGED <<lists, prompt, current_model, current_conversation, chats_list, is_generating,
                   files, saved, loads, ncSave, ncNew, crashed, pressed>>

(* main.rs:151-152: the stream yields an Err, or a response without a      *)
(* message, and the closure's unwrap panics on the executor, not in        *)
(* update: the Task's future unwinds and the rest of its chain is lost     *)
StreamError(i) ==
    /\ ~crashed
    /\ ex[i].phase = "stream"
    /\ ex' = [ex EXCEPT ![i] = Over("dead")]
    /\ UNCHANGED <<lists, prompt, current_model, current_conversation, chats_list, is_generating,
                   files, saved, loads, ncSave, ncNew, crashed, pressed>>

(* a save that leaves out the last Turn *)
SavedWithoutLast(fs, conversation, chats) ==
    IF conversation = None THEN fs
    ELSE Written(fs, conversation[1],
                 to_string(Messages(SubSeq(chats, 1, Len(chats) - 1))))

(* main.rs:168-181: the directory after SaveConversation *)
Saved(fs, conversation, chats) ==
    IF conversation = None THEN fs
    ELSE Written(fs, conversation[1], to_string(Messages(chats)))

(* history: what was saved where *)
Kept(sv, conversation, chats) ==
    IF conversation = None THEN sv
    ELSE [sv EXCEPT ![conversation[1]] = Some(Messages(chats))]

(* Message::SaveConversation, main.rs:167-182, delivered by exchange i     *)
(* after its stream                                                        *)
SaveConversation(i) ==
    /\ ~crashed
    /\ ex[i].phase = "save"
    /\ files' = Saved(files, current_conversation, chats_list)
    /\ saved' = Kept(saved, current_conversation, chats_list)
    /\ ex' = [ex EXCEPT ![i].phase = IF ex[i].reload THEN "list" ELSE "untoggle"]
    /\ UNCHANGED <<lists, prompt, current_model, current_conversation, chats_list, is_generating,
                   loads, ncSave, ncNew, crashed, pressed>>

(* Message::LoadConversationList delivered by exchange i, main.rs:156-162; *)
(* the listing it starts (main.rs:214-239) touches none of the state here  *)
LoadConversationList(i) ==
    /\ ~crashed
    /\ ex[i].phase = "list"
    /\ ex' = [ex EXCEPT ![i].phase = "untoggle"]
    /\ UNCHANGED <<lists, prompt, current_model, current_conversation, chats_list, is_generating,
                   files, saved, loads, ncSave, ncNew, crashed, pressed>>

(* Message::SetConversationFile(conversation), main.rs:89-94 *)
SetConversationFile(conversation) ==
    /\ ~crashed
    /\ pressed < MaxReplacements
    /\ pressed' = pressed + 1
    /\ current_conversation' = conversation
    /\ loads' = IF conversation # None THEN loads + 1 ELSE loads
    /\ UNCHANGED <<lists, prompt, current_model, chats_list, is_generating,
                   files, saved, ex, ncSave, ncNew, crashed>>

(* main.rs:184-197: the Turns after LoadConversation read the file; a      *)
(* file that cannot be read leaves them, a text that does not parse is     *)
(* replaced by the default, no messages                                    *)
Loaded(chats, file) ==
    IF file = None THEN chats ELSE WithItems(ParsedOrDefault(file[1]))

(* Message::LoadConversation, main.rs:183-198; as_ref().unwrap() panics    *)
(* when no conversation is current                                         *)
LoadConversation ==
    /\ ~crashed
    /\ loads > 0
    /\ loads' = loads - 1
    /\ IF current_conversation = None
       THEN crashed' = TRUE /\ UNCHANGED <<chats_list, ex>>
       ELSE /\ chats_list' = Loaded(chats_list, files[current_conversation[1]])
            /\ ex' = IF files[current_conversation[1]] = None THEN ex ELSE Orphaned(ex, "LoadConversation")
            /\ UNCHANGED crashed
    /\ UNCHANGED <<lists, prompt, current_model, current_conversation, is_generating,
                   files, saved, ncSave, ncNew, pressed>>

(* Message::NewChatButtonPressed, main.rs:211-213 *)
NewChatButtonPressed ==
    /\ ~crashed
    /\ pressed < MaxReplacements
    /\ pressed' = pressed + 1
    /\ ncSave' = ncSave + 1
    /\ UNCHANGED <<lists, prompt, current_model, current_conversation, chats_list, is_generating,
                   files, saved, ex, loads, ncNew, crashed>>

(* Message::SaveConversation, main.rs:167-182, delivered first by the Task *)
(* of NewChatButtonPressed                                                 *)
SaveConversationBeforeNewChat ==
    /\ ~crashed
    /\ ncSave > 0
    /\ files' = Saved(files, current_conversation, chats_list)
    /\ saved' = Kept(saved, current_conversation, chats_list)
    /\ ncSave' = ncSave - 1
    /\ ncNew' = ncNew + 1
    /\ UNCHANGED <<lists, prompt, current_model, current_conversation, chats_list, is_generating,
                   ex, loads, crashed, pressed>>

(* Message::NewChat, main.rs:207-210 *)
NewChat ==
    /\ ~crashed
    /\ ncNew > 0
    /\ ncNew' = ncNew - 1
    /\ current_conversation' = None
    /\ chats_list' = << >>
    /\ ex' = Orphaned(ex, "NewChat")
    /\ UNCHANGED <<lists, prompt, current_model, is_generating, files, saved, loads, ncSave, crashed,
                   pressed>>

-----------------------------------------------------------------------------
Next ==
    \/ \E s \in Prompts : UpdatePrompt(s)
    \/ \E m \in Models : SetModel(Some(m))
    \/ SetModel(None)
    \/ SubmitPrompt
    \/ \E i \in 1..MaxExchanges : ToggleIsGenerating(i)
    \/ \E i \in 1..MaxExchanges : BackendUnavailable(i)
    \/ \E i \in 1..MaxExchanges : HandleStreamResponse(i)
    \/ \E i \in 1..MaxExchanges : StreamEnd(i)
    \/ \E i \in 1..MaxExchanges : StreamError(i)
    \/ \E i \in 1..MaxExchanges : SaveConversation(i)
    \/ \E i \in 1..MaxExchanges : LoadConversationList(i)
    \/ \E p \in Paths : SetConversationFile(Some(p))
    \/ LoadConversation
    \/ NewChatButtonPressed
    \/ SaveConversationBeforeNewChat
    \/ NewChat

Spec == Init /\ [][Next]_vars

-----------------------------------------------------------------------------
(* The listing of the conversations, started by App::new (main.rs:78):     *)
(*   message  Task::done(Message::LoadConversationList) is to be delivered *)
(*   future   the future of Task::perform reads and sorts the directory    *)
(*   done     Message::SetConversationsList was delivered                  *)

(* the state after construction, over the directories of the bounds *)
InitList ==
    /\ prompt = << >>
    /\ current_model = None
    /\ current_conversation = None
    /\ chats_list = << >>
    /\ is_generating = FALSE
    /\ mtimes \in [Paths -> {None} \cup { Some(t) : t \in Mtimes }]
    /\ files = [p \in Paths |-> IF mtimes[p] = None THEN None ELSE Some(BadDocument)]
    /\ saved = [p \in Paths |-> None]
    /\ ex = [i \in 1..MaxExchanges |-> IdleTask]
    /\ loads = 0
    /\ ncSave = 0
    /\ ncNew = 0
    /\ crashed = FALSE
    /\ pressed = 0
    /\ conversations_list = << >>
    /\ listing = "message"

(* main.rs:223-226: fs::read_dir(..).map(..path()), the paths of the       *)
(* directory's entries                                                     *)
ReadDir(dir) == { p \in Paths : dir[p] # None }

(* the orders a Vec of the elements of S can have *)
Orders(S) ==
    { l \in [1..Cardinality(S) -> S] :
        \A i, j \in 1..Cardinality(S) : i # j => l[i] # l[j] }

(* main.rs:227-234: the orders sort_unstable_by can leave, the comparison  *)
(* being that of the st_mtime of the files, reversed; elements that        *)
(* compare equal end in any order                                          *)
SortedByMtime(dir) ==
    { l \in Orders(ReadDir(dir)) :
        \A i, j \in 1..Len(l) :
            i < j => st_mtime(dir[l[i]][1]) >= st_mtime(dir[l[j]][1]) }

(* Message::LoadConversationList, main.rs:214-239, delivered at start-up:  *)
(* update returns the Task::perform of the listing future                  *)
LoadConversationListAtStart ==
    /\ ~crashed
    /\ listing = "message"
    /\ listing' = "future"
    /\ UNCHANGED <<prompt, current_model, current_conversation, chats_list, is_generating,
                   files, saved, ex, loads, ncSave, ncNew, crashed, pressed,
                   conversations_list, mtimes>>

(* Message::SetConversationsList(conversations_list), main.rs:86-88, with  *)
(* the output of the listing future                                        *)
SetConversationsList(list) ==
    /\ ~crashed
    /\ listing = "future"
    /\ listing' = "done"
    /\ conversations_list' = list
    /\ UNCHANGED <<prompt, current_model, current_conversation, chats_list, is_generating,
                   files, saved, ex, loads, ncSave, ncNew, crashed, pressed, mtimes>>

NextList ==
    \/ LoadConversationListAtStart
    \/ \E list \in SortedByMtime(mtimes) : SetConversationsList(list)

SpecList == InitList /\ [][NextList]_vars

-----------------------------------------------------------------------------
(* The claims *)

Exchanges == 1..MaxExchanges

(* the exchanges of the current session whose stream has not yet ended *)
InProgress == { i \in Exchanges : Streaming(i) /\ ex[i].session = "current" }

(* C1: a chunk of an exchange that was streaming when NewChat replaced the *)
(* session never changes the Turns of the replacement session.             *)
C1_ChunkAfterNewChatKeepsTurns ==
    [][\A i \in Exchanges :
          (HandleStreamResponse(i) /\ ex[i].session = "NewChat")
              => chats_list' = chats_list]_vars

(* C2: at most one exchange of the current session is in progress.         *)
C2_AtMostOneExchange == Cardinality(InProgress) <= 1

(* C3: SubmitPrompt with no model selected leaves the Turns unchanged and  *)
(* issues no chat request.                                                 *)
C3_SubmitWithoutModelKeepsTurns ==
    [][(SubmitPrompt /\ current_model = None)
          => (chats_list' = chats_list /\ ex' = ex)]_vars

IsPrefix(a, b) == Len(a) <= Len(b) /\ SubSeq(b, 1, Len(a)) = a

ExtendsLast(a, b) ==
    /\ Len(a) = Len(b) /\ Len(a) > 0
    /\ SubSeq(a, 1, Len(a) - 1) = SubSeq(b, 1, Len(b) - 1)
    /\ a[Len(a)].role = b[Len(b)].role
    /\ IsPrefix(a[Len(a)].content, b[Len(b)].content)

(* C4: between session replacements (NewChat, LoadConversation) every step *)
(* leaves the Turns, appends Turns, or extends the content of the last     *)
(* Turn, the latter only when that Turn is the Assistant's and an exchange *)
(* of the session is in progress.                                          *)
C4_AppendOnly ==
    [][(~NewChat /\ ~LoadConversation /\ chats_list' # chats_list)
          => \/ IsPrefix(Messages(chats_list), Messages(chats_list'))
             \/ /\ ExtendsLast(Messages(chats_list), Messages(chats_list'))
                /\ chats_list[Len(chats_list)].role = "Assistant"
                /\ InProgress # {}]_vars

(* C5: the document written by the SaveConversation that follows the      *)
(* stream of an exchange holds, in the Assistant Turn of that exchange,    *)
(* the concatenation of all the chunks of the exchange.                    *)
C5_SavedAfterAllChunks ==
    [][\A i \in Exchanges :
          (SaveConversation(i) /\ current_conversation # None)
              => LET doc == ParsedOrDefault(files'[current_conversation[1]][1])
                 IN /\ Len(doc) >= ex[i].turn
                    /\ doc[ex[i].turn].role = "Assistant"
                    /\ doc[ex[i].turn].content = Sent(i)]_vars

(* C6: a SubmitPrompt in a session that has a storage path leaves the path *)
(* unchanged; the path is derived from the prompt only by a submission in  *)
(* a session without one.                                                  *)
C6_IdentifierStable ==
    [][SubmitPrompt
          => IF current_conversation = None
             THEN current_conversation' = Some(Filename(prompt))
             ELSE current_conversation' = current_conversation]_vars

(* a second prompt was submitted in a session that had its path *)
C6_Witness ==
    \E i \in Exchanges \ {1} :
        /\ ex[i].phase = "toggle"
        /\ ~ex[i].reload
        /\ ex[i - 1].reload
        /\ ex[i - 1].session = "current"
        /\ ex[i - 1].path = ex[i].path
        /\ ex[i].path = current_conversation
        /\ ex[i].path # Some(Filename(ex[i].request.messages[ex[i].turn - 1].content))

(* C7: LoadConversation of a file that is no conversation document leaves  *)
(* the Turns as they were.                                                 *)
C7_InvalidFileKeepsSession ==
    [][(/\ LoadConversation
        /\ current_conversation # None
        /\ files[current_conversation[1]] # None
        /\ ~from_str(files[current_conversation[1]][1]).ok)
          => chats_list' = chats_list]_vars

(* C8: LoadConversation of a file that SaveConversation wrote yields Turns *)
(* whose (role, content) pairs are those of the Turns that were saved.     *)
C8_RoundTrip ==
    [][(/\ LoadConversation
        /\ current_conversation # None
        /\ saved[current_conversation[1]] # None)
          => Messages(chats_list') = saved[current_conversation[1]][1]]_vars

(* a saved session with a quote in its text was loaded back while a later  *)
(* exchange was streaming                                                  *)
C8_Witness ==
    /\ \E i \in Exchanges : ex[i].session = "LoadConversation" /\ ex[i].n = 0
    /\ loads = 0
    /\ current_conversation # None
    /\ saved[current_conversation[1]] = Some(Messages(chats_list))
    /\ \E k \in 1..Len(chats_list) :
          \E j \in 1..Len(chats_list[k].content) : chats_list[k].content[j] = "\""

(* C9: the blocks stored with every Turn are the render of its content.    *)
C9_ItemsMatchContent ==
    \A k \in 1..Len(chats_list) : chats_list[k].items = Render(chats_list[k].content)

(* two chunks were applied to the Assistant Turn of a streaming exchange *)
C9_Witness ==
    \E i \in Exchanges :
        /\ ex[i].phase = "stream"
        /\ ex[i].n = 2
        /\ ex[i].turn = Len(chats_list)
        /\ chats_list[Len(chats_list)].content = Sent(i)
        /\ chats_list[Len(chats_list)].items # << >>

(* C10: the flag becomes true only by the first message of an exchange,    *)
(* and is false once the last message of an exchange was applied.          *)
C10_FlagFollowsExchange ==
    [][\A i \in Exchanges :
          ToggleIsGenerating(i)
              => is_generating' = (ex[i].phase = "toggle")]_vars

(* the exchanges whose Task has messages left to deliver *)
Alive == { i \in Exchanges : ex[i].phase \notin {"idle", "done", "dead"} }

(* C11: after a stream failed, and with no exchange left in flight, the    *)
(* controller is idle again: is_generating is false.                       *)
C11_IdleAfterStreamFailure ==
    ((\E i \in Exchanges : ex[i].phase = "dead") /\ Alive = {}) => ~is_generating

(* C12: no sequence of messages makes update panic.                        *)
C12_NeverCrashes == ~crashed

(* C13: SubmitPrompt with an empty prompt, a model being selected, appends *)
(* no Turn, assigns no storage path and starts no exchange.                *)
C13_EmptyPromptBlocked ==
    [][(SubmitPrompt /\ prompt = << >> /\ current_model # None)
          => /\ chats_list' = chats_list
             /\ current_conversation' = current_conversation
             /\ ex' = ex]_vars

(* the chunks of the response stream *)
Chunks == { Response[k] : k \in 1..Len(Response) }

(* C14: pushing chunks one after the other onto the last Turn gives the    *)
(* Turns that pushing their concatenation gives, and the Assistant Turn of *)
(* the only exchange submitted so far, in a session that was not replaced, *)
(* holds the concatenation, in order, of the chunks it delivered.          *)
C14_ChunksConcatenate ==
    /\ chats_list # << >> =>
          \A a, b, c \in Chunks :
              /\ Extended(Extended(chats_list, a), b) = Extended(chats_list, a \o b)
              /\ Extended(Extended(Extended(chats_list, a), b), c)
                    = Extended(chats_list, a \o b \o c)
    /\ \A i \in Exchanges :
          (/\ ~crashed
           /\ ex[i].phase \in {"stream", "save", "list", "untoggle"}
           /\ ex[i].session = "current"
           /\ \A j \in Exchanges \ {i} : ex[j].phase = "idle")
              => /\ ex[i].turn = Len(chats_list)
                 /\ chats_list[ex[i].turn].content = Sent(i)

(* the stream of the only exchange ended after two different chunks, which *)
(* its Assistant Turn holds in the order of their delivery                 *)
C14_Witness ==
    /\ ex[1].phase = "save" /\ ex[1].n = 2 /\ ex[1].session = "current"
    /\ ex[2].phase = "idle"
    /\ Response[1] # Response[2]
    /\ chats_list[ex[1].turn].content = Response[1] \o Response[2]

(* C17: a chunk of an exchange that was streaming when LoadConversation    *)
(* replaced the session never changes the Turns of the loaded session.     *)
C17_ChunkAfterLoadKeepsTurns ==
    [][\A i \in Exchanges :
          (HandleStreamResponse(i) /\ ex[i].session = "LoadConversation")
              => chats_list' = chats_list]_vars

(* C18: the messages of the request SubmitPrompt issues are the Turns up   *)
(* to and including the new User Turn, without the empty Assistant Turn.   *)
C18_RequestEndsWithUserTurn ==
    [][(SubmitPrompt /\ current_model # None)
          => \A i \in Exchanges :
                ex'[i] # ex[i]
                    => ex'[i].request.messages
                          = Messages(Append(chats_list, UserTurn(prompt)))]_vars

(* C20: the SaveConversation that follows the stream of an exchange writes *)
(* no file other than the one at the storage path of the session the       *)
(* exchange was submitted in, and writes it only while that session is the *)
(* current one.                                                            *)
C20_SaveToOwnSession ==
    [][\A i \in Exchanges :
          SaveConversation(i)
              => \/ files' = files
                 \/ /\ ex[i].session = "current"
                    /\ ex[i].path # None
                    /\ \A p \in Paths : p # ex[i].path[1] => files'[p] = files[p]]_vars

C19_RefreshSeesNewFile ==
    [][\A i \in Exchanges :
          LoadConversationList(i)
              => /\ ex[i].reload
                 /\ ex[i].path # None
                 /\ files[ex[i].path[1]] # None]_vars

(* the time t is later than the time u *)
Later(t, u) == t.sec > u.sec \/ (t.sec = u.sec /\ t.nsec > u.nsec)

(* C15: the list SetConversationsList receives from the listing holds each *)
(* file of the directory once and nothing else and, when no two files were *)
(* last written at the same time, holds them from the latest written to    *)
(* the earliest.                                                           *)
C15_ListedByMtimeDescending ==
    [][\A list \in SortedByMtime(mtimes) :
          SetConversationsList(list)
              => LET l == conversations_list'
                 IN /\ { l[k] : k \in 1..Len(l) } = { p \in Paths : files[p] # None }
                    /\ Len(l) = Cardinality({ p \in Paths : files[p] # None })
                    /\ (\A p, q \in ReadDir(mtimes) : p # q => mtimes[p] # mtimes[q])
                          => \A i, j \in 1..Len(l) :
                                i < j => Later(mtimes[l[i]][1], mtimes[l[j]][1])]_vars

(* the Turns are pairs of a User Turn and the Assistant Turn after it *)
Alternating(chats) ==
    /\ Len(chats) % 2 = 0
    /\ \A k \in 1..Len(chats) :
          chats[k].role = IF k % 2 = 1 THEN "User" ELSE "Assistant"

(* C21: the Turns of the empty session alternate, and every message other  *)
(* than LoadConversation (a submission, a chunk, NewChat, whether or not   *)
(* exchanges overlap) leaves alternating Turns alternating: the list has   *)
(* even length and its roles are User, Assistant, User, Assistant, ...     *)
C21_TurnsAlternate ==
    /\ Alternating(chats_list)
    /\ [][(~LoadConversation /\ Alternating(chats_list))
             => Alternating(chats_list')]_vars

(* a second prompt was submitted while the first exchange was streaming,   *)
(* no conversation having been loaded, and a chunk arrived after it        *)
C21_Witness ==
    /\ ~crashed /\ pressed = 0
    /\ ex[1].phase = "stream" /\ ex[1].n >= 1
    /\ ex[2].phase \in {"toggle", "stream"}
    /\ ex[2].turn = 4
    /\ Len(chats_list) = 4
    /\ chats_list[4].content # << >>

====
